---- MODULE Spec2Model ----
(***************************************************************************)
(* Model of the RSI backtest endpoint (app/bot.py: run_backtest,           *)
(* calculate_metrics, get_annualization_factor), of the strategies and the *)
(* trading engine worker (app/trading_engine.py) and of the shutdown of    *)
(* the worker by the lifespan (app/main.py).                               *)
(*                                                                         *)
(* Python floats are modelled as exact rationals <<n, d>> in lowest terms  *)
(* with d > 0; round(x, k) is modelled as decimal rounding half-to-even.   *)
(* Close prices are positive numbers with at most two decimals, the RSI    *)
(* column produced by pandas_ta is data: NaN on the warm-up rows, a value  *)
(* in [0, 100] afterwards.                                                 *)
(***************************************************************************)
EXTENDS Integers, Sequences, FiniteSets, TLC

\* the locals of one run_backtest call and its response; realized_profits
\* keeps the value of the local `profit` of every Trade appended, which the
\* Trade itself holds rounded
VARIABLES request, df, pc, i, capital, position, entry_price, entry_time,
          trades_list, realized_profits, equity_curve, response

\* a second run_backtest call, suspended while the first one runs
VARIABLES other

\* app/trading_engine.py and the lifespan of app/main.py: the configured
\* strategy name, the strategy instance, the worker's position in its code,
\* its position_open flag, the window of the current iteration, the decision
\* it printed, the exception bound in its handler, the last order it printed,
\* the cancellation requested on its task, the lifespan's position, the
\* position of market_data_worker, the tasks whose await the lifespan has
\* completed, and the signal column returned by generate_signals
VARIABLES STRATEGY_IN_USE, strategy, worker_pc, position_open, window, decision,
          raised, last_order, cancel_requested, lifespan_pc, market_pc, awaited, signals

runVars == <<request, df, pc, i, capital, position, entry_price, entry_time,
             trades_list, realized_profits, equity_curve, response>>

engineVars == <<STRATEGY_IN_USE, strategy, worker_pc, position_open, window, decision,
                raised, last_order, cancel_requested, lifespan_pc, market_pc, awaited, signals>>

\* the variables of trading_engine_worker
engineVarsOfWorker == <<STRATEGY_IN_USE, strategy, worker_pc, position_open, window, decision,
                        raised, last_order, cancel_requested, signals>>

outsideRun == <<other, engineVars>>

vars == <<runVars, other, engineVars>>

(***************************************************************************)
(* Bounds of the model.                                                    *)
(***************************************************************************)
MaxBars == 5

(***************************************************************************)
(* Rational arithmetic.                                                    *)
(***************************************************************************)
Abs(n) == IF n < 0 THEN -n ELSE n

RECURSIVE GCD(_, _)
GCD(a, b) == IF b = 0 THEN a ELSE GCD(b, a % b)

Q(n, d) ==
    LET g == GCD(Abs(n), Abs(d))
        s == IF d < 0 THEN -1 ELSE 1
    IN  <<(s * n) \div g, (s * d) \div g>>

FromInt(n) == <<n, 1>>
Zero == <<0, 1>>
\* NaN is the pair with denominator 0; every comparison with it is false
NaN == <<0, 0>>
IsNaN(x) == x[2] = 0
Add(x, y) ==
    LET g == GCD(x[2], y[2])
    IN  Q(x[1] * (y[2] \div g) + y[1] * (x[2] \div g), (x[2] \div g) * y[2])
Sub(x, y) == Add(x, <<-y[1], y[2]>>)
Mul(x, y) == Q(x[1] * y[1], x[2] * y[2])
Div(x, y) == Q(x[1] * y[2], x[2] * y[1])
Lt(x, y) == x[1] * y[2] < y[1] * x[2]
Gt(x, y) == Lt(y, x)
Le(x, y) == x[2] # 0 /\ y[2] # 0 /\ x[1] * y[2] <= y[1] * x[2]
Ge(x, y) == Le(y, x)

RECURSIVE Pow10(_)
Pow10(k) == IF k = 0 THEN 1 ELSE 10 * Pow10(k - 1)

\* round(x, ndigits) of Python: nearest multiple of 10^-ndigits, ties to even
Round(x, ndigits) ==
    LET p == Pow10(ndigits)
        s == x[1] * p
        q == s \div x[2]
        r == s % x[2]
        m == IF 2 * r < x[2] THEN q
             ELSE IF 2 * r > x[2] THEN q + 1
             ELSE IF q % 2 = 0 THEN q ELSE q + 1
    IN  Q(m, p)

(***************************************************************************)
(* Values of Python: None, numbers, and the annualized Sharpe ratio, whose *)
(* square roots are kept symbolic.                                         *)
(***************************************************************************)
None == [kind |-> "None"]
Number(x) == [kind |-> "number", value |-> x]
Returned(v) == [exc |-> "None", value |-> v]
Raised(e) == [exc |-> e, value |-> None]

SeqSum(s) ==
    LET RECURSIVE Go(_)
        Go(k) == IF k = 0 THEN Zero ELSE Add(Go(k - 1), s[k])
    IN  Go(Len(s))

(***************************************************************************)
(* get_annualization_factor: the interval is a sequence of characters.     *)
(***************************************************************************)
Digits == <<"0", "1", "2", "3", "4", "5", "6", "7", "8", "9">>
IsDigit(c) == \E k \in 1..10 : Digits[k] = c
DigitValue(c) == (CHOOSE k \in 1..10 : Digits[k] = c) - 1

lower(s) ==
    [k \in 1..Len(s) |->
        IF s[k] = "M" THEN "m"
        ELSE IF s[k] = "H" THEN "h"
        ELSE IF s[k] = "D" THEN "d"
        ELSE IF s[k] = "W" THEN "w"
        ELSE IF s[k] = "O" THEN "o"
        ELSE s[k]]

contains(s, c) == \E k \in 1..Len(s) : s[k] = c
replace(s, c) == SelectSeq(s, LAMBDA x : x # c)

\* int(text): a non-empty string of decimal digits, ValueError otherwise
int(s) ==
    LET RECURSIVE Go(_)
        Go(k) == IF k = 0 THEN 0 ELSE 10 * Go(k - 1) + DigitValue(s[k])
    IN  IF s = <<>> \/ \E k \in 1..Len(s) : ~IsDigit(s[k])
        THEN Raised("ValueError")
        ELSE Returned(Go(Len(s)))

\* (year_units / n) ** 0.5
PeriodsRoot(year_units, parsed) ==
    IF parsed.exc # "None" THEN Raised(parsed.exc)
    ELSE IF parsed.value = 0 THEN Raised("ZeroDivisionError")
    ELSE Returned([sqrt |-> Q(year_units, parsed.value)])

get_annualization_factor(interval) ==
    LET s == lower(interval)
    IN  IF contains(s, "m") THEN PeriodsRoot(365 * 24 * 60, int(replace(s, "m")))
        ELSE IF contains(s, "h") THEN PeriodsRoot(365 * 24, int(replace(s, "h")))
        ELSE IF contains(s, "d") THEN PeriodsRoot(365, int(replace(s, "d")))
        ELSE Returned([sqrt |-> FromInt(365)])

(***************************************************************************)
(* calculate_metrics.                                                      *)
(***************************************************************************)
\* pd.Series(equity_curve).pct_change().dropna()
pct_change(curve) ==
    [k \in 1..(Len(curve) - 1) |-> Sub(Div(curve[k + 1], curve[k]), FromInt(1))]

mean(returns) == Div(SeqSum(returns), FromInt(Len(returns)))

\* sample variance (ddof = 1), the square of returns.std(): NaN for fewer
\* than two values
variance(returns) ==
    IF Len(returns) < 2 THEN NaN
    ELSE LET m == mean(returns)
             sq == [k \in 1..Len(returns) |->
                       Mul(Sub(returns[k], m), Sub(returns[k], m))]
         IN  Div(SeqSum(sq), FromInt(Len(returns) - 1))

\* variant: returns.std() >= 0
std_nonnegative(returns) == Ge(variance(returns), Zero)

\* returns.std() > 0
std_positive(returns) == Gt(variance(returns), Zero)

\* the loop over the equity curve: <<peak, max_dd>> after the first k values
\* variant: the drawdown taken as an absolute amount, not relative to the peak
drawdown_scan_absolute(initial_capital, curve) ==
    LET RECURSIVE Go(_)
        Go(k) ==
            IF k = 0 THEN <<initial_capital, Zero>>
            ELSE LET prev == Go(k - 1)
                     peak == IF Gt(curve[k], prev[1]) THEN curve[k] ELSE prev[1]
                     dd == Sub(peak, curve[k])
                 IN  <<peak, IF Gt(dd, prev[2]) THEN dd ELSE prev[2]>>
    IN  Go(Len(curve))

\* variant: the peak taken over the whole curve instead of the running peak
drawdown_scan_global_peak(initial_capital, curve) ==
    LET RECURSIVE Top(_)
        Top(k) == IF k = 0 THEN initial_capital
                  ELSE IF Gt(curve[k], Top(k - 1)) THEN curve[k] ELSE Top(k - 1)
        peak == Top(Len(curve))
        RECURSIVE Go(_)
        Go(k) ==
            IF k = 0 THEN Zero
            ELSE LET dd == Div(Sub(peak, curve[k]), peak)
                 IN  IF Gt(dd, Go(k - 1)) THEN dd ELSE Go(k - 1)
    IN  <<peak, Go(Len(curve))>>

drawdown_scan(initial_capital, curve) ==
    LET RECURSIVE Go(_)
        Go(k) ==
            IF k = 0 THEN <<initial_capital, Zero>>
            ELSE LET prev == Go(k - 1)
                     peak == IF Gt(curve[k], prev[1]) THEN curve[k] ELSE prev[1]
                     dd == Div(Sub(peak, curve[k]), peak)
                 IN  <<peak, IF Gt(dd, prev[2]) THEN dd ELSE prev[2]>>
    IN  Go(Len(curve))

\* variant: the Sharpe ratio computed for any non-empty curve
sharpe_of_any_length(curve, interval) ==
    IF Len(curve) > 0
    THEN LET returns == pct_change(curve)
         IN  IF std_positive(returns)
             THEN LET f == get_annualization_factor(interval)
                  IN  IF f.exc # "None" THEN Raised(f.exc)
                      ELSE Returned([kind |-> "annualized",
                                     mean |-> mean(returns),
                                     variance |-> variance(returns),
                                     factor |-> f.value,
                                     ndigits |-> 2])
             ELSE Returned(Number(Round(Zero, 2)))
    ELSE Returned(None)

\* lines 136-143 and the round(sharpe, 2) of the return statement
sharpe_of(curve, interval) ==
    IF Len(curve) > 1
    THEN LET returns == pct_change(curve)
         IN  IF std_positive(returns)
             THEN LET f == get_annualization_factor(interval)
                  IN  IF f.exc # "None" THEN Raised(f.exc)
                      ELSE Returned([kind |-> "annualized",
                                     mean |-> mean(returns),
                                     variance |-> variance(returns),
                                     factor |-> f.value,
                                     ndigits |-> 2])
             ELSE Returned(Number(Round(Zero, 2)))
    ELSE Returned(None)

is_win(t) == Gt(t.profit, Zero)
\* variant: a zero-profit trade is not a loss
is_loss_strict(t) == Lt(t.profit, Zero)
is_loss(t) == Le(t.profit, Zero)

calculate_metrics(trades, initial_capital, curve, interval) ==
    IF trades = <<>>
    THEN Returned([winning_trades |-> 0, losing_trades |-> 0, win_rate |-> Zero,
                   max_drawdown |-> Zero, sharpe_ratio |-> None])
    ELSE LET winning_trades == Cardinality({k \in DOMAIN trades : is_win(trades[k])})
             losing_trades == Cardinality({k \in DOMAIN trades : is_loss(trades[k])})
             win_rate == Mul(Q(winning_trades, Len(trades)), FromInt(100))
             max_dd == drawdown_scan(initial_capital, curve)[2]
             sharpe == sharpe_of(curve, interval)
         IN  IF sharpe.exc # "None" THEN Raised(sharpe.exc)
             ELSE Returned([winning_trades |-> winning_trades,
                            losing_trades |-> losing_trades,
                            win_rate |-> win_rate,
                            max_drawdown |-> Mul(max_dd, FromInt(100)),
                            sharpe_ratio |-> sharpe.value])

(***************************************************************************)
(* Inputs of a backtest request.                                           *)
(***************************************************************************)
Prices == {2, 3}
RsiValues == {20, 30, 70, 80}
Capitals == {10}
PositionSizes == {<<1, 1>>, <<1, 2>>}
RsiLengths == {2, 3}
Intervals == {<<"1", "d">>, <<"1", "m", "o">>}

Timestamp(k) == [day |-> k]

\* BacktestRequest with the default thresholds rsi_buy = 30, rsi_sell = 70
BacktestRequest ==
    [interval : Intervals,
     rsi_length : RsiLengths,
     rsi_buy : {FromInt(30)},
     rsi_sell : {FromInt(70)},
     initial_capital : {FromInt(c) : c \in Capitals},
     position_size : PositionSizes]

\* load_data_kline followed by ta.rsi: n rows in ascending timestamp order,
\* the first rsi_length rows (the warm-up) carry no RSI value
Frame(n, closes, rsis, length) ==
    [k \in 1..n |->
        [timestamp |-> Timestamp(k),
         close |-> FromInt(closes[k]),
         rsi |-> IF k <= length THEN NaN ELSE FromInt(rsis[k])]]

\* variant: no row is removed
dropna_keeps_all(frame) == frame

\* df.dropna(inplace=True)
dropna(frame) == SelectSeq(frame, LAMBDA row : ~IsNaN(row.close) /\ ~IsNaN(row.rsi))

\* datetime.isoformat()
isoformat(t) == <<"iso", t.day>>

Trade(entry_time_, exit_time_, entry_price_, exit_price_, profit_, profit_pct_, shares_) ==
    [entry_time |-> entry_time_, exit_time |-> exit_time_,
     entry_price |-> entry_price_, exit_price |-> exit_price_,
     profit |-> profit_, profit_pct |-> profit_pct_, shares |-> shares_]

\* the except clauses of run_backtest applied to an exception raised in its body
except_clauses(exc) ==
    IF exc.type = "ValueError" THEN [status |-> 400, cause |-> exc]
    ELSE IF exc.type = "KeyError" THEN [status |-> 500, cause |-> exc]
    ELSE [status |-> 500, cause |-> exc]

HTTPException(code) == [type |-> "HTTPException", status_code |-> code]
NoResponse == [status |-> 0]

\* the state of everything outside run_backtest while only a run is modelled
OutsideRunIdle ==
    /\ other = None
    /\ STRATEGY_IN_USE = "MACD"
    /\ strategy = None
    /\ worker_pc = "not started"
    /\ position_open = FALSE
    /\ window = None
    /\ decision = "NONE"
    /\ raised = None
    /\ last_order = "NONE"
    /\ cancel_requested = FALSE
    /\ lifespan_pc = "not started"
    /\ market_pc = "not started"
    /\ awaited = {}
    /\ signals = None

Init ==
    /\ request \in BacktestRequest
    /\ \E n \in 0..MaxBars :
         \E closes \in [1..n -> Prices] :
           \E rsis \in [(request.rsi_length + 1)..n -> RsiValues] :
             df = Frame(n, closes, rsis, request.rsi_length)
    /\ pc = "start"
    /\ i = 0
    /\ capital = Zero
    /\ position = Zero
    /\ entry_price = Zero
    /\ entry_time = None
    /\ trades_list = <<>>
    /\ realized_profits = <<>>
    /\ equity_curve = <<>>
    /\ response = NoResponse
    /\ OutsideRunIdle

\* the run goes on with any frame that is not empty
Prepare_AnyLength ==
    /\ pc = "start"
    /\ UNCHANGED <<request, i>>
    /\ IF df = <<>>
       THEN /\ response' = except_clauses(HTTPException(404))
            /\ pc' = "done"
            /\ UNCHANGED <<df, capital, position, trades_list, realized_profits, equity_curve,
                           entry_price, entry_time>>
       ELSE /\ df' = dropna(df)
            /\ IF df' = <<>>
               THEN /\ response' = except_clauses(HTTPException(400))
                    /\ pc' = "done"
                    /\ UNCHANGED <<capital, position, trades_list, realized_profits, equity_curve,
                                   entry_price, entry_time>>
               ELSE /\ capital' = request.initial_capital
                    /\ position' = Zero
                    /\ trades_list' = <<>>
                    /\ realized_profits' = <<>>
                    /\ equity_curve' = <<request.initial_capital>>
                    /\ entry_price' = Zero
                    /\ entry_time' = None
                    /\ pc' = "loop"
                    /\ UNCHANGED response
    /\ UNCHANGED outsideRun

\* lines 165-200: load, RSI column, dropna, the two data checks, initialisation
Prepare ==
    /\ pc = "start"
    /\ UNCHANGED <<request, i>>
    /\ IF df = <<>>
       THEN /\ response' = except_clauses(HTTPException(404))
            /\ pc' = "done"
            /\ UNCHANGED <<df, capital, position, trades_list, realized_profits, equity_curve,
                           entry_price, entry_time>>
       ELSE /\ df' = dropna(df)
            /\ IF df' = <<>> \/ Len(df') < request.rsi_length
               THEN /\ response' = except_clauses(HTTPException(400))
                    /\ pc' = "done"
                    /\ UNCHANGED <<capital, position, trades_list, realized_profits, equity_curve,
                                   entry_price, entry_time>>
               ELSE /\ capital' = request.initial_capital
                    /\ position' = Zero
                    /\ trades_list' = <<>>
                    /\ realized_profits' = <<>>
                    /\ equity_curve' = <<request.initial_capital>>
                    /\ entry_price' = Zero
                    /\ entry_time' = None
                    /\ pc' = "loop"
                    /\ UNCHANGED response
    /\ UNCHANGED outsideRun

current_price == df[i + 1].close
rsi_value == df[i + 1].rsi

\* variant: a BUY is taken whatever the position
buy_condition_pyramiding == Lt(rsi_value, request.rsi_buy) /\ Gt(capital, Zero)
\* variant: a bar whose RSI equals rsi_buy is a BUY
buy_condition_inclusive ==
    position = Zero /\ Le(rsi_value, request.rsi_buy) /\ Gt(capital, Zero)
buy_condition == position = Zero /\ Lt(rsi_value, request.rsi_buy) /\ Gt(capital, Zero)
sell_condition == Gt(position, Zero) /\ Gt(rsi_value, request.rsi_sell)

\* variant: the equity point counts the cash only
mark_to_market_cash_only(capital_, position_, price) == capital_

\* line 235-236 with the capital and position the bar leaves
mark_to_market(capital_, position_, price) == Add(capital_, Mul(position_, price))

\* variant: the profit taken per share, without the quantity
closed_trade_per_share(exit_time, exit_price) ==
    LET profit == Sub(exit_price, entry_price)
        profit_pct == Mul(Div(Sub(exit_price, entry_price), entry_price), FromInt(100))
    IN  Trade(isoformat(entry_time), isoformat(exit_time),
              Round(entry_price, 2), Round(exit_price, 2),
              Round(profit, 2), Round(profit_pct, 2), Round(position, 4))

\* lines 221 and 243: profit = sale_value - (position * entry_price), before
\* it is rounded for the Trade
trade_profit(exit_price) == Sub(Mul(position, exit_price), Mul(position, entry_price))

\* variant: the Trade records the bar of the exit as its entry too
closed_trade_exit_as_entry(exit_time, exit_price) ==
    LET sale_value == Mul(position, exit_price)
        profit == Sub(sale_value, Mul(position, entry_price))
        profit_pct == Mul(Div(Sub(exit_price, entry_price), entry_price), FromInt(100))
    IN  Trade(isoformat(exit_time), isoformat(exit_time),
              Round(entry_price, 2), Round(exit_price, 2),
              Round(profit, 2), Round(profit_pct, 2), Round(position, 4))

\* the Trade of lines 224-232 and 246-254
closed_trade(exit_time, exit_price) ==
    LET sale_value == Mul(position, exit_price)
        profit == Sub(sale_value, Mul(position, entry_price))
        profit_pct == Mul(Div(Sub(exit_price, entry_price), entry_price), FromInt(100))
    IN  Trade(isoformat(entry_time), isoformat(exit_time),
              Round(entry_price, 2), Round(exit_price, 2),
              Round(profit, 2), Round(profit_pct, 2), Round(position, 4))

\* variant: twice the cash is invested
amount_to_invest_leveraged == Mul(capital, FromInt(2))

\* line 208
amount_to_invest == Mul(capital, request.position_size)

\* lines 207-212 and 235-236
BuyBar ==
    /\ pc = "loop" /\ i < Len(df)
    /\ buy_condition
    /\ position' = Div(amount_to_invest, current_price)
    /\ capital' = Sub(capital, amount_to_invest)
    /\ entry_price' = current_price
    /\ entry_time' = df[i + 1].timestamp
    /\ equity_curve' = Append(equity_curve, mark_to_market(capital', position', current_price))
    /\ i' = i + 1
    /\ UNCHANGED <<request, df, pc, trades_list, realized_profits, response>>
    /\ UNCHANGED outsideRun

\* lines 215-233 and 235-236
SellBar ==
    /\ pc = "loop" /\ i < Len(df)
    /\ ~buy_condition
    /\ sell_condition
    /\ capital' = Add(capital, Mul(position, current_price))
    /\ trades_list' = Append(trades_list, closed_trade(df[i + 1].timestamp, current_price))
    /\ realized_profits' = Append(realized_profits, trade_profit(current_price))
    /\ position' = Zero
    /\ equity_curve' = Append(equity_curve, mark_to_market(capital', position', current_price))
    /\ i' = i + 1
    /\ UNCHANGED <<request, df, pc, entry_price, entry_time, response>>
    /\ UNCHANGED outsideRun

\* a bar on which neither branch is taken: lines 235-236 only
HoldBar ==
    /\ pc = "loop" /\ i < Len(df)
    /\ ~buy_condition
    /\ ~sell_condition
    /\ equity_curve' = Append(equity_curve, mark_to_market(capital, position, current_price))
    /\ i' = i + 1
    /\ UNCHANGED <<request, df, pc, capital, position, entry_price, entry_time,
                   trades_list, realized_profits, response>>
    /\ UNCHANGED outsideRun

\* variant: the open position is closed on the first row, df.iloc[0]
ClosePosition_FirstRow ==
    /\ pc = "loop" /\ i = Len(df)
    /\ IF Gt(position, Zero)
       THEN LET final_price == df[1].close
            IN  /\ capital' = Add(capital, Mul(position, final_price))
                /\ trades_list' = Append(trades_list,
                                         closed_trade(df[1].timestamp, final_price))
                /\ realized_profits' = Append(realized_profits, trade_profit(final_price))
       ELSE UNCHANGED <<capital, trades_list, realized_profits>>
    /\ pc' = "metrics"
    /\ UNCHANGED <<request, df, i, position, entry_price, entry_time, equity_curve, response>>
    /\ UNCHANGED outsideRun

\* variant: the open position is left open at the end of the data
ClosePosition_Skipped ==
    /\ pc = "loop" /\ i = Len(df)
    /\ pc' = "metrics"
    /\ UNCHANGED <<request, df, i, capital, position, entry_price, entry_time,
                   trades_list, realized_profits, equity_curve, response>>
    /\ UNCHANGED outsideRun

\* variant: the end-of-data close appends a point to the equity curve
ClosePosition_AppendsEquity ==
    /\ pc = "loop" /\ i = Len(df)
    /\ IF Gt(position, Zero)
       THEN LET final_price == df[Len(df)].close
            IN  /\ capital' = Add(capital, Mul(position, final_price))
                /\ trades_list' = Append(trades_list,
                                         closed_trade(df[Len(df)].timestamp, final_price))
                /\ realized_profits' = Append(realized_profits, trade_profit(final_price))
                /\ equity_curve' = Append(equity_curve, capital')
       ELSE UNCHANGED <<capital, trades_list, realized_profits, equity_curve>>
    /\ pc' = "metrics"
    /\ UNCHANGED <<request, df, i, position, entry_price, entry_time, response>>
    /\ UNCHANGED outsideRun

\* lines 238-254: after the last bar, close the open position
ClosePosition ==
    /\ pc = "loop" /\ i = Len(df)
    /\ IF Gt(position, Zero)
       THEN LET final_price == df[Len(df)].close
            IN  /\ capital' = Add(capital, Mul(position, final_price))
                /\ trades_list' = Append(trades_list,
                                         closed_trade(df[Len(df)].timestamp, final_price))
                /\ realized_profits' = Append(realized_profits, trade_profit(final_price))
       ELSE UNCHANGED <<capital, trades_list, realized_profits>>
    /\ pc' = "metrics"
    /\ UNCHANGED <<request, df, i, position, entry_price, entry_time, equity_curve, response>>
    /\ UNCHANGED outsideRun

\* lines 256-282
BacktestResult(metrics) ==
    LET final_capital == capital
        total_profit == Sub(final_capital, request.initial_capital)
        total_profit_pct == Mul(Div(total_profit, request.initial_capital), FromInt(100))
    IN  [interval |-> request.interval,
         initial_capital |-> Round(request.initial_capital, 2),
         final_capital |-> Round(final_capital, 2),
         profit_loss |-> Round(total_profit, 2),
         profit_loss_pct |-> Round(total_profit_pct, 2),
         total_trades |-> Len(trades_list),
         winning_trades |-> metrics.winning_trades,
         losing_trades |-> metrics.losing_trades,
         win_rate |-> Round(metrics.win_rate, 2),
         max_drawdown |-> Round(metrics.max_drawdown, 2),
         sharpe_ratio |-> metrics.sharpe_ratio,
         trades |-> trades_list]

Finish ==
    /\ pc = "metrics"
    /\ LET metrics == calculate_metrics(trades_list, request.initial_capital,
                                        equity_curve, request.interval)
       IN  response' = IF metrics.exc # "None"
                       THEN except_clauses([type |-> metrics.exc])
                       ELSE [status |-> 200, body |-> BacktestResult(metrics.value)]
    /\ pc' = "done"
    /\ UNCHANGED <<request, df, i, capital, position, entry_price, entry_time,
                   trades_list, realized_profits, equity_curve>>
    /\ UNCHANGED outsideRun

Next == Prepare \/ BuyBar \/ SellBar \/ HoldBar \/ ClosePosition \/ Finish

Spec == Init /\ [][Next]_vars

(***************************************************************************)
(* calculate_metrics called on its own: the arguments are drawn from       *)
(* bounded sets and the function is applied once.                          *)
(***************************************************************************)
MaxTrades == 2
MaxCurveLen == 3

TradeProfits == {<<-1, 1>>, <<0, 1>>, <<1, 1>>}
CurveValues == {FromInt(50), FromInt(100), FromInt(150), FromInt(200)}
MetricsIntervals == {<<"1", "d">>, <<"4", "h">>, <<"1", "5", "m">>, <<"1", "m", "o">>}

LedgerEntry(profit) ==
    Trade(isoformat(Timestamp(1)), isoformat(Timestamp(2)), FromInt(2), FromInt(3),
          profit, Zero, FromInt(1))

InitMetrics ==
    /\ request \in [interval : MetricsIntervals,
                    rsi_length : {2},
                    rsi_buy : {FromInt(30)},
                    rsi_sell : {FromInt(70)},
                    initial_capital : {FromInt(100)},
                    position_size : {FromInt(1)}]
    /\ \E n \in 0..MaxTrades :
         \E profits \in [1..n -> TradeProfits] :
           trades_list = [k \in 1..n |-> LedgerEntry(profits[k])]
    /\ realized_profits = <<>>
    /\ \E n \in 0..MaxCurveLen : equity_curve \in [1..n -> CurveValues]
    /\ pc = "call"
    /\ df = <<>>
    /\ i = 0
    /\ capital = Zero
    /\ position = Zero
    /\ entry_price = Zero
    /\ entry_time = None
    /\ response = NoResponse
    /\ OutsideRunIdle

CallCalculateMetrics ==
    /\ pc = "call"
    /\ response' = calculate_metrics(trades_list, request.initial_capital,
                                     equity_curve, request.interval)
    /\ pc' = "returned"
    /\ UNCHANGED <<request, df, i, capital, position, entry_price, entry_time,
                   trades_list, realized_profits, equity_curve>>
    /\ UNCHANGED outsideRun

NextMetrics == CallCalculateMetrics

SpecMetrics == InitMetrics /\ [][NextMetrics]_vars

(***************************************************************************)
(* The trading engine worker (app/trading_engine.py: trading_engine_worker)*)
(* as a task of the event loop, started and cancelled by the lifespan of   *)
(* app/main.py.  The worker runs without interruption from one await to    *)
(* the next; the bars it fetches, the signal column its strategy returns   *)
(* and the exceptions raised in an iteration are inputs.                   *)
(***************************************************************************)
MinBars == 50
FetchLimit == 200

\* the strategy instances, by the fields that __init__ stores
RSIStrategy(rsi_length_, rsi_buy_, rsi_sell_) ==
    [class |-> "RSIStrategy", rsi_length |-> rsi_length_,
     rsi_buy |-> rsi_buy_, rsi_sell |-> rsi_sell_]

MACrossStrategy(fast_period_, slow_period_) ==
    [class |-> "MACrossStrategy", fast_period |-> fast_period_, slow_period |-> slow_period_]

MACDStrategy(fast_, slow_, signal_) ==
    [class |-> "MACDStrategy", fast |-> fast_, slow |-> slow_, signal |-> signal_]

STRATEGY_REGISTRY ==
    [name \in {"RSI", "MA_CROSS", "MACD"} |->
       CASE name = "RSI" -> "RSIStrategy"
         [] name = "MA_CROSS" -> "MACrossStrategy"
         [] name = "MACD" -> "MACDStrategy"]

\* variant: the moving averages of the default MACrossStrategy are longer
StrategyClass_LongAverages(class) ==
    CASE class = "RSIStrategy" -> RSIStrategy(14, FromInt(30), FromInt(70))
      [] class = "MACrossStrategy" -> MACrossStrategy(50, 100)
      [] class = "MACDStrategy" -> MACDStrategy(12, 26, 9)

\* StrategyClass(): the instance built from the default arguments
StrategyClass(class) ==
    CASE class = "RSIStrategy" -> RSIStrategy(14, FromInt(30), FromInt(70))
      [] class = "MACrossStrategy" -> MACrossStrategy(20, 50)
      [] class = "MACDStrategy" -> MACDStrategy(12, 26, 9)

\* the classes an exception is an instance of
mro(type) ==
    CASE type = "CancelledError" -> {"CancelledError", "BaseException"}
      [] type = "OperationalError" -> {"OperationalError", "Exception", "BaseException"}
      [] type = "KeyError" -> {"KeyError", "Exception", "BaseException"}
      [] type = "TypeError" -> {"TypeError", "Exception", "BaseException"}

CancelledError == [type |-> "CancelledError"]

except_BaseException(exc) == "BaseException" \in mro(exc.type)

\* except Exception as e
except_Exception(exc) == "Exception" \in mro(exc.type)

\* the awaits of the worker; the one of the insufficient-data branch is
\* inside the try block, the back-off is inside the handler, the poll-interval
\* sleep is after the try statement
Sleeps == {"sleep_nodata", "sleep_error", "sleep_poll"}
in_try(at) == at = "sleep_nodata"
Finished == {"returned", "cancelled"}

StrategyNames == {"RSI", "MA_CROSS", "MACD", "BOLLINGER"}
Signals == {"BUY", "SELL", "HOLD"}
WindowSizes == {0, MinBars - 1, MinBars, FetchLimit}
\* the signals of the last two bars of the window, oldest first
SignalTails == [1..2 -> Signals]
\* where an iteration raises, and what: in the bar fetch, in the strategy,
\* in the print of line 149 before the decision, or when the session is
\* closed on leaving the `with` block of line 127, after the decision
Faults == {"none", "fetch", "strategy", "decision", "close"}
fault_exception(fault) ==
    CASE fault = "fetch" -> [type |-> "OperationalError"]
      [] fault = "strategy" -> [type |-> "KeyError"]
      [] fault = "decision" -> [type |-> "TypeError"]
      [] fault = "close" -> [type |-> "OperationalError"]

RunIdle ==
    /\ request = None
    /\ df = <<>>
    /\ pc = "idle"
    /\ i = 0
    /\ capital = Zero
    /\ position = Zero
    /\ entry_price = Zero
    /\ entry_time = None
    /\ trades_list = <<>>
    /\ realized_profits = <<>>
    /\ equity_curve = <<>>
    /\ response = NoResponse

\* main.py lines 19-31: the tables exist, both tasks are created, the
\* application serves
InitWorker ==
    /\ RunIdle
    /\ other = None
    /\ STRATEGY_IN_USE \in StrategyNames
    /\ strategy = None
    /\ worker_pc = "created"
    /\ position_open = FALSE
    /\ window = None
    /\ decision = "NONE"
    /\ raised = None
    /\ last_order = "NONE"
    /\ cancel_requested = FALSE
    /\ lifespan_pc = "serving"
    /\ market_pc = "created"
    /\ awaited = {}
    /\ signals = None

\* lines 108-123: the registry lookup, the instance, the flag
WorkerStart ==
    /\ worker_pc = "created" /\ ~cancel_requested
    /\ IF STRATEGY_IN_USE \in DOMAIN STRATEGY_REGISTRY
       THEN /\ strategy' = StrategyClass(STRATEGY_REGISTRY[STRATEGY_IN_USE])
            /\ position_open' = FALSE
            /\ worker_pc' = "loop"
       ELSE /\ worker_pc' = "returned"
            /\ UNCHANGED <<strategy, position_open>>
    /\ UNCHANGED <<runVars, other, STRATEGY_IN_USE, window, decision, raised, last_order,
                   cancel_requested, lifespan_pc, market_pc, awaited, signals>>

\* lines 151-160: the decision printed for the last bar's signal and the flag
\* after it
decide_level(current_signal, open) ==
    IF current_signal = "BUY" THEN [decision |-> "BUY", position_open |-> TRUE]
    ELSE IF current_signal = "SELL" THEN [decision |-> "SELL", position_open |-> FALSE]
    ELSE [decision |-> "HOLD", position_open |-> open]

decide(current_signal, open) ==
    IF current_signal = "BUY" /\ ~open THEN [decision |-> "BUY", position_open |-> TRUE]
    ELSE IF current_signal = "SELL" /\ open THEN [decision |-> "SELL", position_open |-> FALSE]
    ELSE [decision |-> "HOLD", position_open |-> open]

\* variant: the oldest signal at hand decides
last_row_oldest(df_with_signals) == df_with_signals[1]

\* lines 146-147: df_with_signals.iloc[-1]['signal']
last_row(df_with_signals) == df_with_signals[Len(df_with_signals)]

\* lines 125-164, from the top of the loop to the next await: fetch `rows`
\* bars, evaluate the strategy (its signal column ends with `tail`), decide;
\* `fault` is the place where the iteration raises, if it gets there
Iteration(rows, tail, fault) ==
    /\ worker_pc = "loop"
    /\ IF fault = "fetch"
       THEN /\ raised' = fault_exception(fault)
            /\ worker_pc' = IF except_Exception(raised') THEN "sleep_error" ELSE "failed"
            /\ window' = None /\ signals' = None /\ decision' = "NONE"
            /\ UNCHANGED <<position_open, last_order>>
       ELSE IF rows = 0 \/ rows < MinBars
       THEN /\ worker_pc' = "sleep_nodata"
            /\ window' = [rows |-> rows] /\ signals' = None /\ decision' = "NONE"
            /\ raised' = None
            /\ UNCHANGED <<position_open, last_order>>
       ELSE IF fault = "strategy"
       THEN /\ raised' = fault_exception(fault)
            /\ worker_pc' = IF except_Exception(raised') THEN "sleep_error" ELSE "failed"
            /\ window' = [rows |-> rows] /\ signals' = None /\ decision' = "NONE"
            /\ UNCHANGED <<position_open, last_order>>
       ELSE IF fault = "decision"
       THEN /\ raised' = fault_exception(fault)
            /\ worker_pc' = IF except_Exception(raised') THEN "sleep_error" ELSE "failed"
            /\ window' = [rows |-> rows] /\ signals' = tail /\ decision' = "NONE"
            /\ UNCHANGED <<position_open, last_order>>
       ELSE LET d == decide(last_row(tail), position_open)
            IN  /\ decision' = d.decision
                /\ position_open' = d.position_open
                /\ last_order' = IF d.decision \in {"BUY", "SELL"} THEN d.decision
                                 ELSE last_order
                /\ window' = [rows |-> rows] /\ signals' = tail
                /\ IF fault = "close"
                   THEN /\ raised' = fault_exception(fault)
                        /\ worker_pc' = IF except_Exception(raised') THEN "sleep_error"
                                        ELSE "failed"
                   ELSE /\ raised' = None
                        /\ worker_pc' = "sleep_poll"
    /\ UNCHANGED <<runVars, other, STRATEGY_IN_USE, strategy, cancel_requested, lifespan_pc, market_pc, awaited>>

Iterate ==
    \E rows \in WindowSizes : \E tail \in SignalTails : \E fault \in Faults :
      Iteration(rows, tail, fault)

\* lines 140-141: the insufficient-data sleep ends, `continue`
WakeNoData ==
    /\ worker_pc = "sleep_nodata" /\ ~cancel_requested
    /\ worker_pc' = "loop"
    /\ UNCHANGED <<runVars, other, STRATEGY_IN_USE, strategy, position_open, window, decision,
                   raised, last_order, cancel_requested, lifespan_pc, market_pc, awaited, signals>>

\* line 164: the back-off ends, the handler is left
WakeError_Returns ==
    /\ worker_pc = "sleep_error" /\ ~cancel_requested
    /\ worker_pc' = "returned"
    /\ UNCHANGED <<runVars, other, STRATEGY_IN_USE, strategy, position_open, window, decision,
                   raised, last_order, cancel_requested, lifespan_pc, market_pc, awaited, signals>>

WakeError ==
    /\ worker_pc = "sleep_error" /\ ~cancel_requested
    /\ worker_pc' = "sleep_poll"
    /\ UNCHANGED <<runVars, other, STRATEGY_IN_USE, strategy, position_open, window, decision,
                   raised, last_order, cancel_requested, lifespan_pc, market_pc, awaited, signals>>

\* line 166: the poll-interval sleep ends, next iteration
WakePoll ==
    /\ worker_pc = "sleep_poll" /\ ~cancel_requested
    /\ worker_pc' = "loop"
    /\ UNCHANGED <<runVars, other, STRATEGY_IN_USE, strategy, position_open, window, decision,
                   raised, last_order, cancel_requested, lifespan_pc, market_pc, awaited, signals>>

\* the event loop throws CancelledError into the task at the await where it
\* is suspended (or ends a task that has not run yet); a CancelledError
\* thrown inside the try block meets the handler of line 162
Cancelled ==
    /\ cancel_requested
    /\ worker_pc \in Sleeps \cup {"created"}
    /\ IF in_try(worker_pc) /\ except_Exception(CancelledError)
       THEN /\ raised' = CancelledError
            /\ worker_pc' = "sleep_error"
            /\ cancel_requested' = FALSE
       ELSE /\ worker_pc' = "cancelled"
            /\ UNCHANGED <<raised, cancel_requested>>
    /\ UNCHANGED <<runVars, other, STRATEGY_IN_USE, strategy, position_open, window, decision,
                   last_order, lifespan_pc, market_pc, awaited, signals>>

\* main.py lines 33-38: shutdown; cancel() on a task that has finished does
\* nothing.  The lifespan runs while the worker is suspended or not running,
\* and is then suspended at `await market_worker_task`.
Shutdown ==
    /\ lifespan_pc = "serving"
    /\ worker_pc # "loop"
    /\ cancel_requested' = (worker_pc \notin Finished)
    /\ lifespan_pc' = "awaiting"
    /\ UNCHANGED <<runVars, other, STRATEGY_IN_USE, strategy, worker_pc, position_open, window,
                   decision, raised, last_order, signals, market_pc, awaited>>

\* market.py lines 88-113: market_data_worker runs to its first await (the
\* ingestion thread or a sleep); every await of its loop is one of these
MarketStart ==
    /\ lifespan_pc = "serving"
    /\ market_pc = "created"
    /\ market_pc' = "suspended"
    /\ UNCHANGED <<runVars, other, engineVarsOfWorker, lifespan_pc, awaited>>

\* the CancelledError thrown into market_data_worker at its await (or before
\* it has run) is not an Exception: the handler of market.py line 110 lets
\* it pass and the task ends cancelled
MarketCancelled ==
    /\ lifespan_pc = "awaiting"
    /\ market_pc \in {"created", "suspended"}
    /\ ~except_Exception(CancelledError)
    /\ market_pc' = "cancelled"
    /\ UNCHANGED <<runVars, other, engineVarsOfWorker, lifespan_pc, awaited>>

\* main.py lines 38-43: `await market_worker_task` completes when that task
\* has ended; the task was cancelled, so the await raises CancelledError,
\* the handler of line 42 prints and the lifespan returns without reaching
\* line 41.  (market_data_worker has no return: the await never completes
\* without raising.)  The event loop runs callbacks in the order they were
\* scheduled: the step of the worker that its cancellation scheduled runs
\* before the lifespan is resumed.
AwaitWorkers ==
    /\ lifespan_pc = "awaiting"
    /\ market_pc = "cancelled"
    /\ ~(cancel_requested /\ worker_pc \in Sleeps \cup {"created"})
    /\ awaited' = awaited \cup {"market_worker_task"}
    /\ lifespan_pc' = "returned"
    /\ UNCHANGED <<runVars, other, engineVarsOfWorker, market_pc>>

NextWorker ==
    \/ WorkerStart \/ Iterate \/ WakeNoData \/ WakeError \/ WakePoll \/ Cancelled
    \/ Shutdown \/ MarketStart \/ MarketCancelled \/ AwaitWorkers

SpecWorker == InitWorker /\ [][NextWorker]_vars

\* asyncio timers fire and the event loop runs every task that is ready
SpecWorkerFair ==
    /\ SpecWorker
    /\ WF_vars(WakeNoData) /\ WF_vars(WakeError) /\ WF_vars(WakePoll) /\ WF_vars(Cancelled)

(***************************************************************************)
(* The strategies of app/trading_engine.py and the validation of a         *)
(* BacktestRequest (app/bot.py), as operations on one RSI configuration    *)
(* and one frame of bars.  The RSI column is data, as in the backtest; the *)
(* moving averages are computed.                                           *)
(***************************************************************************)
StrategyBars == 4

\* Series.shift(1)
shift(series) == [k \in 1..Len(series) |-> IF k = 1 THEN NaN ELSE series[k - 1]]

\* df['signal'] = 'HOLD', then BUY where buy_conditions, then SELL where
\* sell_conditions
signal_column(buy_conditions, sell_conditions) ==
    [k \in 1..Len(buy_conditions) |->
        IF sell_conditions[k] THEN "SELL"
        ELSE IF buy_conditions[k] THEN "BUY"
        ELSE "HOLD"]

\* the RSI never crosses: level conditions
rsi_signals_level(rsi, rsi_buy, rsi_sell) ==
    signal_column([k \in 1..Len(rsi) |-> Lt(rsi[k], rsi_buy)],
                  [k \in 1..Len(rsi) |-> Gt(rsi[k], rsi_sell)])

\* RSIStrategy.generate_signals on the RSI column
rsi_signals(rsi, rsi_buy, rsi_sell) ==
    LET previous == shift(rsi)
    IN  signal_column(
          [k \in 1..Len(rsi) |-> Lt(rsi[k], rsi_buy) /\ Ge(previous[k], rsi_buy)],
          [k \in 1..Len(rsi) |-> Gt(rsi[k], rsi_sell) /\ Le(previous[k], rsi_sell)])

\* ta.sma: the mean of the last `length` closes, NaN before
sma(close, length) ==
    [k \in 1..Len(close) |->
        IF k < length THEN NaN ELSE mean(SubSeq(close, k - length + 1, k))]

\* MACrossStrategy.generate_signals on the close column
macross_signals(close, fast_period, slow_period) ==
    LET fast_ma == sma(close, fast_period)
        slow_ma == sma(close, slow_period)
        fast_previous == shift(fast_ma)
        slow_previous == shift(slow_ma)
    IN  signal_column(
          [k \in 1..Len(close) |->
              Gt(fast_ma[k], slow_ma[k]) /\ Le(fast_previous[k], slow_previous[k])],
          [k \in 1..Len(close) |->
              Lt(fast_ma[k], slow_ma[k]) /\ Ge(fast_previous[k], slow_previous[k])])

column(frame, name) == [k \in 1..Len(frame) |-> frame[k][name]]

generate_signals(self, frame) ==
    CASE self.class = "RSIStrategy" ->
           rsi_signals(column(frame, "rsi"), self.rsi_buy, self.rsi_sell)
      [] self.class = "MACrossStrategy" ->
           macross_signals(column(frame, "close"), self.fast_period, self.slow_period)

\* the field validator of rsi_sell; `data` holds the fields validated before
validate_rsi_levels(v, data) ==
    IF "rsi_buy" \in DOMAIN data /\ Le(v, data.rsi_buy)
    THEN Raised("ValueError")
    ELSE Returned(v)

Thresholds == {FromInt(30), FromInt(50), FromInt(70)}
Periods == {2, 3}

\* a request body and a frame of StrategyBars bars
InitStrategy ==
    /\ request \in [interval : {<<"1", "d">>},
                    rsi_length : {2},
                    rsi_buy : Thresholds,
                    rsi_sell : Thresholds,
                    initial_capital : {FromInt(c) : c \in Capitals},
                    position_size : {FromInt(1)}]
    /\ \E closes \in [1..StrategyBars -> Prices] :
         \E rsis \in [(request.rsi_length + 1)..StrategyBars -> RsiValues] :
           df = Frame(StrategyBars, closes, rsis, request.rsi_length)
    /\ pc = "body"
    /\ i = 0
    /\ capital = Zero
    /\ position = Zero
    /\ entry_price = Zero
    /\ entry_time = None
    /\ trades_list = <<>>
    /\ realized_profits = <<>>
    /\ equity_curve = <<>>
    /\ response = NoResponse
    /\ OutsideRunIdle

\* bot.py lines 17-31: the request body becomes a BacktestRequest or is
\* refused before run_backtest is called
ValidateRequest ==
    /\ pc = "body"
    /\ IF validate_rsi_levels(request.rsi_sell, [rsi_buy |-> request.rsi_buy]).exc # "None"
       THEN /\ pc' = "refused"
            /\ response' = [status |-> 422, cause |-> [type |-> "ValueError"]]
       ELSE /\ pc' = "validated"
            /\ UNCHANGED response
    /\ UNCHANGED <<request, df, i, capital, position, entry_price, entry_time,
                   trades_list, realized_profits, equity_curve, outsideRun>>

\* RSIStrategy(rsi_length, rsi_buy, rsi_sell) with the configuration's values
ConstructRSI ==
    /\ strategy = None
    /\ strategy' = RSIStrategy(request.rsi_length, request.rsi_buy, request.rsi_sell)
    /\ UNCHANGED <<runVars, other, STRATEGY_IN_USE, worker_pc, position_open, window, decision,
                   raised, last_order, cancel_requested, lifespan_pc, market_pc, awaited, signals>>

\* MACrossStrategy(fast_period, slow_period)
ConstructMACross ==
    /\ strategy = None
    /\ \E fast_period \in Periods : \E slow_period \in Periods :
         strategy' = MACrossStrategy(fast_period, slow_period)
    /\ UNCHANGED <<runVars, other, STRATEGY_IN_USE, worker_pc, position_open, window, decision,
                   raised, last_order, cancel_requested, lifespan_pc, market_pc, awaited, signals>>

\* strategy.generate_signals(df)
GenerateSignals ==
    /\ strategy # None
    /\ signals = None
    /\ signals' = generate_signals(strategy, df)
    /\ UNCHANGED <<runVars, other, STRATEGY_IN_USE, strategy, worker_pc, position_open, window,
                   decision, raised, last_order, cancel_requested, lifespan_pc, market_pc, awaited>>

NextStrategy == ValidateRequest \/ ConstructRSI \/ ConstructMACross \/ GenerateSignals

SpecStrategy == InitStrategy /\ [][NextStrategy]_vars

(***************************************************************************)
(* Two calls of run_backtest on the event loop.  A call is suspended only  *)
(* at its one await, the load of the bars (bot.py lines 167-172); from     *)
(* there it runs to its return without interruption.  The variables of the *)
(* run are the locals of the call that is running, `other` holds those of  *)
(* the call that is not.                                                   *)
(***************************************************************************)
ConcurrentBars == 4

\* the call that is running
ThisCall ==
    [request |-> request, df |-> df, pc |-> pc, i |-> i, capital |-> capital,
     position |-> position, entry_price |-> entry_price, entry_time |-> entry_time,
     trades_list |-> trades_list, realized_profits |-> realized_profits, equity_curve |-> equity_curve, response |-> response]

\* a call that has just been made: its request, and the bars its load returns
NewCall(request_, df_) ==
    [request |-> request_, df |-> df_, pc |-> "start", i |-> 0, capital |-> Zero,
     position |-> Zero, entry_price |-> Zero, entry_time |-> None,
     trades_list |-> <<>>, realized_profits |-> <<>>, equity_curve |-> <<>>, response |-> NoResponse]

ConcurrentRsiValues == {20, 80}
ConcurrentRequests ==
    [interval : {<<"1", "d">>},
     rsi_length : {2},
     rsi_buy : {FromInt(30)},
     rsi_sell : {FromInt(70)},
     initial_capital : {FromInt(c) : c \in Capitals},
     position_size : PositionSizes]
\* frames of ConcurrentBars bars, of one bar less, and the empty frame; every
\* bar but the last closes at 2.  The second call invests all its capital
\* and loads a frame of ConcurrentBars bars.
ConcurrentFrames ==
    {<<>>} \cup
    UNION {{Frame(n, [k \in 1..n |-> IF k < n THEN 2 ELSE last], rsis, 2) :
              last \in Prices, rsis \in [3..n -> ConcurrentRsiValues]} :
           n \in (ConcurrentBars - 1)..ConcurrentBars}

InitConcurrent ==
    /\ \E r1 \in ConcurrentRequests : \E f1 \in ConcurrentFrames :
         /\ request = r1
         /\ df = f1
    /\ pc = "start"
    /\ i = 0
    /\ capital = Zero
    /\ position = Zero
    /\ entry_price = Zero
    /\ entry_time = None
    /\ trades_list = <<>>
    /\ realized_profits = <<>>
    /\ equity_curve = <<>>
    /\ response = NoResponse
    /\ \E r2 \in ConcurrentRequests : \E f2 \in ConcurrentFrames :
         /\ r2.position_size = FromInt(1)
         /\ Len(f2) = ConcurrentBars
         /\ other = NewCall(r2, f2)
    /\ STRATEGY_IN_USE = "MACD"
    /\ strategy = None
    /\ worker_pc = "not started"
    /\ position_open = FALSE
    /\ window = None
    /\ decision = "NONE"
    /\ raised = None
    /\ last_order = "NONE"
    /\ cancel_requested = FALSE
    /\ lifespan_pc = "not started"
    /\ market_pc = "not started"
    /\ awaited = {}
    /\ signals = None

\* variant: the ledger is one list that both calls append to
Switch_SharedLedger ==
    /\ pc \in {"start", "done"}
    /\ other.pc # "done"
    /\ request' = other.request
    /\ df' = other.df
    /\ pc' = other.pc
    /\ i' = other.i
    /\ capital' = other.capital
    /\ position' = other.position
    /\ entry_price' = other.entry_price
    /\ entry_time' = other.entry_time
    /\ equity_curve' = other.equity_curve
    /\ response' = other.response
    /\ other' = ThisCall
    /\ UNCHANGED <<trades_list, realized_profits, engineVars>>

\* the event loop leaves the call that awaits its bars or has returned and
\* runs the other one
Switch ==
    /\ pc \in {"start", "done"}
    /\ other.pc # "done"
    /\ request' = other.request
    /\ df' = other.df
    /\ pc' = other.pc
    /\ i' = other.i
    /\ capital' = other.capital
    /\ position' = other.position
    /\ entry_price' = other.entry_price
    /\ entry_time' = other.entry_time
    /\ trades_list' = other.trades_list
    /\ realized_profits' = other.realized_profits
    /\ equity_curve' = other.equity_curve
    /\ response' = other.response
    /\ other' = ThisCall
    /\ UNCHANGED engineVars

NextConcurrent ==
    Prepare \/ BuyBar \/ SellBar \/ HoldBar \/ ClosePosition \/ Finish \/ Switch

SpecConcurrent == InitConcurrent /\ [][NextConcurrent]_vars

(***************************************************************************)
(* The strategies and the backtest on bars whose RSI column is computed    *)
(* from the closes as pandas_ta computes it: the gains and the losses of   *)
(* close.diff(), each averaged by ewm(alpha = 1 / length, min_periods =    *)
(* length).mean().                                                         *)
(***************************************************************************)
\* Series.diff()
diff(series) == [k \in 1..Len(series) |-> IF k = 1 THEN NaN ELSE Sub(series[k], series[k - 1])]

RECURSIVE power(_, _)
power(x, n) == IF n = 0 THEN FromInt(1) ELSE Mul(x, power(x, n - 1))

\* Series.ewm(alpha=alpha, min_periods=min_periods).mean(): the mean of the
\* observations up to row k weighted by (1 - alpha) ** age, NaN while there
\* are fewer than min_periods of them
ewm_mean(series, alpha, min_periods) ==
    LET decay == Sub(FromInt(1), alpha)
        RECURSIVE weighted(_, _)
        weighted(k, j) ==
            IF j = 0 THEN <<Zero, Zero>>
            ELSE LET rest == weighted(k, j - 1)
                 IN  IF IsNaN(series[j]) THEN rest
                     ELSE <<Add(rest[1], Mul(power(decay, k - j), series[j])),
                            Add(rest[2], power(decay, k - j))>>
    IN  [k \in 1..Len(series) |->
            IF Cardinality({j \in 1..k : ~IsNaN(series[j])}) < min_periods THEN NaN
            ELSE Div(weighted(k, k)[1], weighted(k, k)[2])]

\* ta.rsi(close, length): 100 * average gain / (average gain + average loss)
ta_rsi(close, length) ==
    LET change == diff(close)
        positive == [k \in 1..Len(close) |->
                        IF IsNaN(change[k]) THEN NaN
                        ELSE IF Lt(change[k], Zero) THEN Zero ELSE change[k]]
        negative == [k \in 1..Len(close) |->
                        IF IsNaN(change[k]) THEN NaN
                        ELSE IF Gt(change[k], Zero) THEN Zero ELSE Sub(Zero, change[k])]
        positive_avg == ewm_mean(positive, Q(1, length), length)
        negative_avg == ewm_mean(negative, Q(1, length), length)
    IN  [k \in 1..Len(close) |->
            IF IsNaN(positive_avg[k]) \/ Add(positive_avg[k], negative_avg[k]) = Zero
            THEN NaN
            ELSE Div(Mul(FromInt(100), positive_avg[k]),
                     Add(positive_avg[k], negative_avg[k]))]

\* the bars with these closes and the RSI column of that length
BarsOf(closes, length) ==
    LET rsi == ta_rsi([k \in 1..Len(closes) |-> FromInt(closes[k])], length)
    IN  [k \in 1..Len(closes) |->
            [timestamp |-> Timestamp(k), close |-> FromInt(closes[k]), rsi |-> rsi[k]]]

\* closes that rise by one or two from bar to bar, starting at 1 or 2
RisingCloses == {[k \in 1..7 |-> k + up[k]] : up \in [1..7 -> {0, 1}]}
\* closes that fall three times and then rebound
ReboundCloses ==
    {[k \in 1..5 |-> <<100, 90, 80, 70, 110>>[k] + 10 * up[k]] : up \in [1..5 -> {0, 1}]}

InitScenario ==
    /\ request = [interval |-> <<"1", "d">>,
                  rsi_length |-> 2,
                  rsi_buy |-> FromInt(30),
                  rsi_sell |-> FromInt(70),
                  initial_capital |-> FromInt(1000),
                  position_size |-> FromInt(1)]
    /\ \E closes \in RisingCloses \cup ReboundCloses : df = BarsOf(closes, request.rsi_length)
    /\ pc = "start"
    /\ i = 0
    /\ capital = Zero
    /\ position = Zero
    /\ entry_price = Zero
    /\ entry_time = None
    /\ trades_list = <<>>
    /\ realized_profits = <<>>
    /\ equity_curve = <<>>
    /\ response = NoResponse
    /\ OutsideRunIdle

\* strategy.generate_signals on the bars as they are loaded
SignalsOfLoadedBars == pc = "start" /\ GenerateSignals

NextScenario ==
    \/ ConstructRSI \/ ConstructMACross \/ SignalsOfLoadedBars
    \/ Prepare \/ BuyBar \/ SellBar \/ HoldBar \/ ClosePosition \/ Finish

SpecScenario == InitScenario /\ [][NextScenario]_vars

(***************************************************************************)
(* Properties.                                                             *)
(***************************************************************************)
Completed == pc = "done" /\ response.status = 200
LastBar == df[Len(df)]
LastTrade(ledger) == ledger[Len(ledger)]
BuySignal(row) == Lt(row.rsi, request.rsi_buy)
SellSignal(row) == Gt(row.rsi, request.rsi_sell)

C2_NoTradesKeepsCapital ==
    (Completed /\ trades_list = <<>>) =>
        /\ capital = request.initial_capital
        /\ response.body.final_capital = response.body.initial_capital
        /\ response.body.profit_loss = Zero

C2_Witness ==
    /\ Completed
    /\ trades_list = <<>>
    /\ Len(df) >= 3
    /\ response.body.total_trades = 0

\* C3: a bar that is neither (FLAT, RSI below rsi_buy, capital > 0) nor (LONG,
\* RSI above rsi_sell) leaves capital, quantity, entry price, entry time and
\* the ledger unchanged; a quantity is only ever bought from FLAT.
C3_OtherBarsChangeNothing ==
    [][(pc = "loop" /\ i' = i + 1) =>
         LET row == df[i + 1]
             opens == position = Zero /\ BuySignal(row) /\ Gt(capital, Zero)
             closes == Gt(position, Zero) /\ SellSignal(row)
         IN  /\ (~opens /\ ~closes) =>
                   UNCHANGED <<capital, position, entry_price, entry_time, trades_list>>
             /\ (position' # position /\ Gt(position', Zero)) => position = Zero]_vars

C3_Witness ==
    /\ pc = "loop"
    /\ i >= 2
    /\ Gt(position, Zero)
    /\ BuySignal(df[i])
    /\ entry_time # df[i].timestamp
    /\ SellSignal(df[1])

\* C4 as stated: every Trade of the ledger has quantity > 0, profit equal to
\* quantity * (exit_price - entry_price) and profit_pct equal to
\* (exit_price - entry_price) / entry_price * 100.
C4_TradeFieldsExact ==
    \A k \in DOMAIN trades_list :
        LET t == trades_list[k]
        IN  /\ Gt(t.shares, Zero)
            /\ t.profit = Mul(t.shares, Sub(t.exit_price, t.entry_price))
            /\ t.profit_pct =
                   Mul(Div(Sub(t.exit_price, t.entry_price), t.entry_price), FromInt(100))

\* C4 amended: every Trade appended to the ledger, by a SELL or by the
\* end-of-data close, closes a held quantity q > 0 bought at the entry close
\* and records shares = round(q, 4), profit = round(q * (exit close - entry
\* close), 2) and profit_pct = round((exit close - entry close) / entry close
\* * 100, 2).
C4_TradeFieldsRounded ==
    [][trades_list' # trades_list =>
         LET t == LastTrade(trades_list')
             exit_close == IF pc' = "metrics" THEN LastBar.close ELSE df[i + 1].close
         IN  /\ trades_list' = Append(trades_list, t)
             /\ Gt(position, Zero)
             /\ t.shares = Round(position, 4)
             /\ t.profit = Round(Mul(position, Sub(exit_close, entry_price)), 2)
             /\ t.profit_pct =
                    Round(Mul(Div(Sub(exit_close, entry_price), entry_price), FromInt(100)), 2)]_vars

C4_Witness ==
    /\ pc = "metrics"
    /\ Len(trades_list) = 2
    /\ Gt(position, Zero)
    /\ trades_list[1].profit # Mul(trades_list[1].shares,
                                   Sub(trades_list[1].exit_price, trades_list[1].entry_price))
    /\ trades_list[2].exit_time = isoformat(LastBar.timestamp)

\* C5: the equity curve starts with initial_capital and holds one more value
\* per simulated bar; at the end of the run its length is the number of bars
\* plus 1, the end-of-data close adds no point.
C5_EquityCurveLength ==
    (pc \in {"loop", "metrics"} \/ Completed) =>
        /\ equity_curve[1] = request.initial_capital
        /\ Len(equity_curve) = i + 1
        /\ (pc # "loop" => Len(equity_curve) = Len(df) + 1)

C5_Witness ==
    /\ Completed
    /\ Gt(position, Zero)
    /\ trades_list # <<>>
    /\ Len(equity_curve) = Len(df) + 1
    /\ Len(df) >= 3

C7_MaxDrawdownInRange ==
    Completed =>
        LET m == calculate_metrics(trades_list, request.initial_capital,
                                   equity_curve, request.interval).value
        IN  /\ Ge(m.max_drawdown, Zero) /\ Le(m.max_drawdown, FromInt(100))
            /\ Ge(response.body.max_drawdown, Zero)
            /\ Le(response.body.max_drawdown, FromInt(100))
            /\ response.body.max_drawdown = Round(m.max_drawdown, 2)

C7_Witness ==
    /\ Completed
    /\ Gt(response.body.max_drawdown, FromInt(30))
    /\ Lt(capital, request.initial_capital)

NonDecreasing(curve) ==
    \A k \in 1..(Len(curve) - 1) : Le(curve[k], curve[k + 1])

SameReturns(curve) ==
    \A j, k \in 1..(Len(curve) - 1) : pct_change(curve)[j] = pct_change(curve)[k]

IterationStep == worker_pc = "loop" /\ worker_pc' # "loop"

\* C11: in every iteration of the worker, a would-buy is printed only when
\* position_open is false and sets it true, a would-sell only when it is true
\* and sets it false, so that a would-buy never follows a would-buy without
\* a would-sell between them (and conversely), whatever signals the last bars
\* carry; every other iteration that reaches the decision prints HOLD, and
\* every iteration that prints neither order leaves position_open unchanged.
C11_DecisionsAlternate ==
    [][IterationStep =>
         /\ decision' = "BUY" =>
               ~position_open /\ position_open' /\ last_order # "BUY"
         /\ decision' = "SELL" =>
               position_open /\ ~position_open' /\ last_order = "BUY"
         /\ decision' \notin {"BUY", "SELL"} =>
               /\ position_open' = position_open
               /\ last_order' = last_order
               /\ worker_pc' = "sleep_poll" => decision' = "HOLD"
         /\ position_open' = (last_order' = "BUY")]_vars

\* the last bar still carries SELL in the iteration after a would-sell, and
\* the worker prints HOLD
C11_Witness ==
    /\ worker_pc = "sleep_poll"
    /\ decision = "HOLD"
    /\ last_order = "SELL"
    /\ ~position_open
    /\ signals[Len(signals)] = "SELL"

\* C12: an exception raised in an iteration (by the bar fetch, the strategy
\* or the decision) never ends the worker: the iteration ends in the handler's
\* back-off sleep, the back-off ends only by waking up or by cancellation, and
\* from the back-off the worker reaches the top of its loop again unless it
\* is cancelled.
C12_ExceptionNeverTerminates ==
    /\ [][(IterationStep /\ raised' # None) => worker_pc' = "sleep_error"]_vars
    /\ [][(worker_pc = "sleep_error" /\ worker_pc' # "sleep_error") =>
            worker_pc' \in {"sleep_poll", "cancelled"}]_vars
    /\ (worker_pc = "sleep_error") ~> (worker_pc = "loop" \/ worker_pc = "cancelled")

\* the worker is at the top of its loop again after an iteration that raised
C12_Witness ==
    /\ worker_pc = "loop"
    /\ raised # None
    /\ ~cancel_requested
    /\ lifespan_pc = "serving"

\* C13: once the lifespan has requested the cancellation of the worker's
\* task, the only step the worker takes is to end cancelled, at whichever
\* sleep it is suspended (insufficient data, back-off, poll interval) or
\* before it has run at all: the handler of the loop does not absorb the
\* cancellation, no iteration runs, and a cancelled worker stays cancelled.
C13_CancellationEndsWorker ==
    /\ [][cancel_requested =>
            /\ worker_pc' = worker_pc \/ worker_pc' = "cancelled"
            /\ cancel_requested'
            /\ raised' = raised
            /\ ~IterationStep]_vars
    /\ [][worker_pc = "cancelled" => worker_pc' = "cancelled"]_vars

\* the worker was cancelled at the insufficient-data sleep, inside the try
C13_Witness ==
    /\ worker_pc = "cancelled"
    /\ cancel_requested
    /\ window # None
    /\ window.rows < MinBars

\* C14: when STRATEGY_IN_USE is not a key of STRATEGY_REGISTRY the worker
\* does not return normally: its task ends in a failure that whoever started
\* it can see.
C14_UnknownStrategyFails ==
    STRATEGY_IN_USE \notin DOMAIN STRATEGY_REGISTRY => worker_pc # "returned"

\* the number of bars a strategy needs before its indicators have a value on
\* the last bar: length + 1 closes for the RSI, the longer period for the two
\* moving averages, slow + signal - 1 for the MACD signal line
warmup(self) ==
    CASE self.class = "RSIStrategy" -> self.rsi_length + 1
      [] self.class = "MACrossStrategy" ->
           IF self.fast_period > self.slow_period THEN self.fast_period
           ELSE self.slow_period
      [] self.class = "MACDStrategy" -> self.slow + self.signal - 1

C26_OnlyLastBarDecides ==
    [][(IterationStep /\ signals' # None /\ raised' = None) =>
         \A other_tail \in SignalTails :
           other_tail[Len(other_tail)] = signals'[Len(signals')] =>
             /\ decision' = decide(other_tail[Len(other_tail)], position_open).decision
             /\ position_open' =
                  decide(other_tail[Len(other_tail)], position_open).position_open]_vars

\* an iteration held although the bar before the last one carried a BUY and
\* no position was open
C26_Witness ==
    /\ worker_pc = "sleep_poll"
    /\ signals = <<"BUY", "HOLD">>
    /\ decision = "HOLD"
    /\ ~position_open
    /\ last_order = "NONE"

C15_DataFailuresSurfaced ==
    (pc = "done" /\ response.status # 200 /\ response.cause.type = "HTTPException") =>
      response.status = response.cause.status_code

\* C16: an RSI configuration with rsi_sell <= rsi_buy is refused before any
\* bar is simulated and before any signal is generated: the request that
\* carries it is never validated, and no RSIStrategy holds it.
C16_RsiThresholdsRejected ==
    /\ (request # None /\ Le(request.rsi_sell, request.rsi_buy)) =>
          pc \in {"body", "refused"}
    /\ (strategy # None /\ strategy.class = "RSIStrategy") =>
          Gt(strategy.rsi_sell, strategy.rsi_buy)

\* C17: no MACrossStrategy has fast_period >= slow_period: constructing one
\* fails, so none generates signals.
C17_MACrossPeriodsRejected ==
    (strategy # None /\ strategy.class = "MACrossStrategy") =>
      strategy.fast_period < strategy.slow_period

strategy_signal(k) ==
    rsi_signals(column(df, "rsi"), request.rsi_buy, request.rsi_sell)[k]

\* C20: the backtest is edge-triggered like RSIStrategy.generate_signals: a
\* bar of the loop opens a position only if its RSI is below rsi_buy and the
\* previous bar's was at or above it (signal BUY), and closes one only if its
\* RSI is above rsi_sell and the previous bar's was at or below it (signal
\* SELL); a bar that merely stays beyond a threshold, the first simulated
\* bar included, triggers nothing.
C20_EdgeTriggered ==
    [][(pc = "loop" /\ i' = i + 1) =>
         /\ (position = Zero /\ Gt(position', Zero)) => strategy_signal(i + 1) = "BUY"
         /\ (Gt(position, Zero) /\ position' = Zero) => strategy_signal(i + 1) = "SELL"]_vars

(***************************************************************************)
(* Properties of concurrent runs.                                          *)
(***************************************************************************)
Locals(capital_, position_, entry_price_, entry_time_, trades_list_, equity_curve_) ==
    [capital |-> capital_, position |-> position_, entry_price |-> entry_price_,
     entry_time |-> entry_time_, trades_list |-> trades_list_,
     equity_curve |-> equity_curve_]

locals_of(call) ==
    Locals(call.capital, call.position, call.entry_price, call.entry_time,
           call.trades_list, call.equity_curve)

\* what a run that is alone holds after the first k bars of its frame, as a
\* function of its request and its frame
RECURSIVE alone_after(_, _, _)
alone_after(req, frame, k) ==
    IF k = 0
    THEN Locals(req.initial_capital, Zero, Zero, None, <<>>, <<req.initial_capital>>)
    ELSE LET s == alone_after(req, frame, k - 1)
             row == frame[k]
         IN  IF s.position = Zero /\ Lt(row.rsi, req.rsi_buy) /\ Gt(s.capital, Zero)
             THEN LET amount == Mul(s.capital, req.position_size)
                      bought == Div(amount, row.close)
                      cash == Sub(s.capital, amount)
                  IN  Locals(cash, bought, row.close, row.timestamp, s.trades_list,
                             Append(s.equity_curve, Add(cash, Mul(bought, row.close))))
             ELSE IF Gt(s.position, Zero) /\ Gt(row.rsi, req.rsi_sell)
             THEN LET cash == Add(s.capital, Mul(s.position, row.close))
                      trade ==
                        Trade(isoformat(s.entry_time), isoformat(row.timestamp),
                              Round(s.entry_price, 2), Round(row.close, 2),
                              Round(Sub(Mul(s.position, row.close),
                                        Mul(s.position, s.entry_price)), 2),
                              Round(Mul(Div(Sub(row.close, s.entry_price), s.entry_price),
                                        FromInt(100)), 2),
                              Round(s.position, 4))
                  IN  Locals(cash, Zero, s.entry_price, s.entry_time,
                             Append(s.trades_list, trade), Append(s.equity_curve, cash))
             ELSE [s EXCEPT !.equity_curve =
                      Append(@, Add(s.capital, Mul(s.position, row.close)))]

\* what it holds once the position left open is closed on the last bar
alone_final(req, frame) ==
    LET s == alone_after(req, frame, Len(frame))
        row == frame[Len(frame)]
        trade ==
          Trade(isoformat(s.entry_time), isoformat(row.timestamp),
                Round(s.entry_price, 2), Round(row.close, 2),
                Round(Sub(Mul(s.position, row.close), Mul(s.position, s.entry_price)), 2),
                Round(Mul(Div(Sub(row.close, s.entry_price), s.entry_price),
                          FromInt(100)), 2),
                Round(s.position, 4))
    IN  IF Gt(s.position, Zero)
        THEN [s EXCEPT !.capital = Add(s.capital, Mul(s.position, row.close)),
                       !.trades_list = Append(s.trades_list, trade)]
        ELSE s

\* a call holds, and answers, what it would if it ran alone
Isolated(call) ==
    /\ call.pc = "loop" => locals_of(call) = alone_after(call.request, call.df, call.i)
    /\ call.pc = "metrics" => locals_of(call) = alone_final(call.request, call.df)
    /\ call.pc = "done" =>
          IF Len(call.df) < call.request.rsi_length
          THEN /\ call.response.status = 500
               /\ call.trades_list = <<>>
               /\ call.equity_curve = <<>>
          ELSE LET s == alone_final(call.request, call.df)
                   metrics == calculate_metrics(s.trades_list, call.request.initial_capital,
                                                s.equity_curve, call.request.interval).value
               IN  /\ locals_of(call) = s
                   /\ call.response.status = 200
                   /\ call.response.body.final_capital = Round(s.capital, 2)
                   /\ call.response.body.total_trades = Len(s.trades_list)
                   /\ call.response.body.trades = s.trades_list
                   /\ call.response.body.max_drawdown = Round(metrics.max_drawdown, 2)
                   /\ call.response.body.sharpe_ratio = metrics.sharpe_ratio

\* C19: two calls of run_backtest that run concurrently share nothing: in
\* every interleaving, the capital, position, ledger and equity curve of each
\* call, and the result it returns, are those the call has when it runs
\* alone on its own request and bars.
C19_RunsShareNoState == Isolated(ThisCall) /\ Isolated(other)

\* both calls have returned a result, one with a trade and one without
C19_Witness ==
    /\ pc = "done" /\ other.pc = "done"
    /\ response.status = 200 /\ other.response.status = 200
    /\ Len(trades_list) = 1 /\ Len(other.trades_list) = 0
    /\ Len(other.df) = 2

(***************************************************************************)
(* Properties of the scenarios.                                            *)
(***************************************************************************)
Count(column_, value) == Cardinality({k \in 1..Len(column_) : column_[k] = value})

\* C21: MACrossStrategy(2, 3).generate_signals on bars with closes 1, 2, 3,
\* 4, 5, 6, 7 marks exactly one bar BUY and no bar SELL.
C21_RisingClosesOneBuy ==
    (/\ signals # None
     /\ strategy = MACrossStrategy(2, 3)
     /\ column(df, "close") = [k \in 1..7 |-> FromInt(k)]) =>
      Count(signals, "BUY") = 1 /\ Count(signals, "SELL") = 0

\* C22: on the bars with closes 100, 90, 80, 70, 110, RSIStrategy(2, 30, 70)
\* signals BUY on the bar where the RSI is first below 30 (the third) and
\* SELL on the bar where it is then above 70 (the fifth), and the backtest
\* with initial_capital 1000 and position_size 1 ends with exactly one Trade,
\* whose profit is positive.
C22_ReboundScenario ==
    /\ (/\ signals # None
         /\ strategy = RSIStrategy(2, FromInt(30), FromInt(70))
         /\ column(df, "close") = [k \in 1..5 |-> FromInt(<<100, 90, 80, 70, 110>>[k])]) =>
          signals = <<"HOLD", "HOLD", "BUY", "HOLD", "SELL">>
    /\ (/\ pc = "done"
         /\ column(df, "close") = <<FromInt(80), FromInt(70), FromInt(110)>>) =>
          /\ Completed
          /\ Len(response.body.trades) = 1
          /\ Gt(response.body.trades[1].profit, Zero)

(***************************************************************************)
(* Further properties of a backtest run.                                   *)
(***************************************************************************)
\* C23: get_annualization_factor does not fail on an interval it cannot
\* parse, such as '1mo', so that a backtest with that interval and enough
\* bars completes with a result, whatever its trades are.
C23_UnparseableIntervalFallsBack ==
    (/\ pc = "done"
     /\ Len(df) >= request.rsi_length
     /\ request.interval = <<"1", "m", "o">>) =>
      Completed

\* a run that got past its data checks
Simulating == pc \in {"loop", "metrics"} \/ Completed
NoBuyBar == \A k \in 1..Len(df) : ~Lt(df[k].rsi, request.rsi_buy)

\* C24: in a run none of whose bars has its RSI below rsi_buy, the ledger
\* stays empty, every point of the equity curve equals initial_capital, the
\* capital stays initial_capital, and the result reports no trade and a
\* final_capital equal to initial_capital.
C24_NoBuyNoTrade ==
    (Simulating /\ NoBuyBar) =>
      /\ trades_list = <<>>
      /\ \A k \in 1..Len(equity_curve) : equity_curve[k] = request.initial_capital
      /\ capital = request.initial_capital
      /\ position = Zero
      /\ Completed =>
            /\ response.body.total_trades = 0
            /\ response.body.trades = <<>>
            /\ response.body.final_capital = Round(request.initial_capital, 2)

\* a completed run without a BUY bar, one of whose bars has its RSI at
\* rsi_buy and another above rsi_sell
C24_Witness ==
    /\ Completed
    /\ NoBuyBar
    /\ \E k \in 1..Len(df) : df[k].rsi = request.rsi_buy
    /\ \E k \in 1..Len(df) : Gt(df[k].rsi, request.rsi_sell)

\* a bar whose indicator has a value
Defined(row) == ~IsNaN(row.rsi)

\* C27: the step that enters the loop removes exactly the bars without an
\* indicator value and starts from the initial capital, an empty ledger and
\* the single equity point initial_capital; from then on every bar of the
\* frame has an indicator value, and the equity curve holds that first point
\* and one point per bar iterated, so that a warm-up bar is never iterated
\* and adds neither a transition nor an equity point.
C27_NoWarmupBarProcessed ==
    /\ [][(pc = "start" /\ pc' = "loop") =>
            /\ df' = SelectSeq(df, Defined)
            /\ capital' = request.initial_capital
            /\ position' = Zero
            /\ trades_list' = <<>>
            /\ equity_curve' = <<request.initial_capital>>]_vars
    /\ [](Simulating =>
            /\ \A k \in 1..Len(df) : Defined(df[k])
            /\ i <= Len(df)
            /\ Len(equity_curve) = i + 1)
    /\ [][(pc = "loop" /\ i' = i + 1) => Defined(df[i'])]_vars

\* a completed run over a frame whose warm-up bars were removed: its first
\* bar is the one after the warm-up, and every bar left was iterated
C27_Witness ==
    /\ Completed
    /\ Len(df) >= 2
    /\ df[1].timestamp = Timestamp(request.rsi_length + 1)
    /\ i = Len(df)
    /\ Len(equity_curve) = Len(df) + 1

\* C28: while the bars are iterated the quantity held and the cash are never
\* negative; the bar that opens a position leaves the quantity
\* capital * position_size / entry_price with entry_price the bar's close
\* and takes the invested amount from the cash, a bar that keeps the position
\* open keeps that quantity and that entry price, and every other bar leaves
\* the quantity 0.
C28_QuantityAndCash ==
    /\ [](pc = "loop" =>
            /\ Ge(position, Zero)
            /\ Ge(capital, Zero)
            /\ Gt(position, Zero) => Gt(entry_price, Zero))
    /\ [][(pc = "loop" /\ i' = i + 1) =>
            IF position = Zero /\ position' # Zero
            THEN /\ entry_price' = df[i'].close
                 /\ position' = Div(Mul(capital, request.position_size), entry_price')
                 /\ capital' = Sub(capital, Mul(capital, request.position_size))
            ELSE IF position # Zero /\ position' # Zero
            THEN position' = position /\ entry_price' = entry_price
            ELSE position' = Zero]_vars

\* half of the cash was invested, the position was held over a bar and the
\* loop is at a later bar with the quantity and the other half of the cash
C28_Witness ==
    /\ pc = "loop"
    /\ i >= 2
    /\ request.position_size = <<1, 2>>
    /\ Gt(position, Zero)
    /\ entry_time = df[i - 1].timestamp
    /\ position = Div(Mul(request.initial_capital, request.position_size), entry_price)
    /\ capital = Mul(request.initial_capital, request.position_size)

(***************************************************************************)
(* Properties of the shutdown (app/main.py).                               *)
(***************************************************************************)
\* C29: when the lifespan has returned, both worker tasks have ended and the
\* lifespan has completed an await of each of them.
C29_ShutdownAwaitsBothWorkers ==
    lifespan_pc = "returned" =>
      /\ market_pc = "cancelled"
      /\ worker_pc \in Finished
      /\ awaited = {"market_worker_task", "trading_worker_task"}

(***************************************************************************)
(* Properties of the trade ledger of a backtest run.                       *)
(***************************************************************************)
\* the day an isoformat string of the ledger stands for
day_of(iso) == iso[2]

\* C30: in the ledger every Trade is entered no later than it is exited, and
\* on the same bar only if that bar is the last one and the Trade is the
\* last of the ledger, appended by the step that leaves the loop; each Trade
\* is exited strictly before the next one is entered; and a bar of the loop
\* never both opens a position and appends a Trade.
C30_LedgerOrdered ==
    /\ [](\A k \in 1..Len(trades_list) :
            /\ day_of(trades_list[k].entry_time) <= day_of(trades_list[k].exit_time)
            /\ day_of(trades_list[k].entry_time) = day_of(trades_list[k].exit_time) =>
                  /\ k = Len(trades_list)
                  /\ pc # "loop"
                  /\ trades_list[k].exit_time = isoformat(LastBar.timestamp)
            /\ k < Len(trades_list) =>
                  day_of(trades_list[k].exit_time) < day_of(trades_list[k + 1].entry_time))
    /\ [][(pc = "loop" /\ i' = i + 1) =>
            /\ (position = Zero /\ position' # Zero) => trades_list' = trades_list
            /\ Len(trades_list') > Len(trades_list) =>
                  /\ position' = Zero
                  /\ entry_time' = entry_time
                  /\ LastTrade(trades_list').entry_time = isoformat(entry_time)
                  /\ LastTrade(trades_list').exit_time = isoformat(df[i'].timestamp)
                  /\ entry_time.day < df[i'].timestamp.day]_vars
    /\ [][(Len(trades_list') > Len(trades_list) /\
            LastTrade(trades_list').entry_time = LastTrade(trades_list').exit_time) =>
              /\ pc = "loop" /\ pc' = "metrics"
              /\ entry_time = LastBar.timestamp]_vars

\* a ledger of two trades: the first closed by a sell, the second opened on
\* the last bar and closed there by the step that leaves the loop
C30_Witness ==
    /\ Completed
    /\ Len(trades_list) = 2
    /\ day_of(trades_list[1].entry_time) < day_of(trades_list[1].exit_time)
    /\ trades_list[2].entry_time = trades_list[2].exit_time
    /\ trades_list[2].exit_time = isoformat(LastBar.timestamp)

(***************************************************************************)
(* Properties of the final capital of a backtest run.                      *)
(***************************************************************************)
\* C31: once the loop has been left, the capital (which line 257 names
\* final_capital) equals the last point of the equity curve, whether the
\* position was force-closed or not, and the final_capital of a result is
\* that point rounded to 2 decimals.
C31_FinalCapitalIsLastEquity ==
    /\ (pc \in {"metrics", "done"} /\ equity_curve # <<>>) =>
          capital = equity_curve[Len(equity_curve)]
    /\ Completed =>
          response.body.final_capital = Round(equity_curve[Len(equity_curve)], 2)

\* a completed run whose position was force-closed at a close other than
\* its entry price
C31_Witness ==
    /\ Completed
    /\ Gt(position, Zero)
    /\ LastBar.close # entry_price
    /\ capital # request.initial_capital
    /\ trades_list # <<>>

\* SeqSum over the profits realized so far
total_realized == SeqSum(realized_profits)

\* C32: while the bars are iterated and no position is held, and from the
\* end of the loop on, the capital is initial_capital plus the sum of the
\* unrounded profits of the Trades appended so far, each Trade carrying its
\* profit rounded to 2 decimals; hence the capital a run ends with less
\* initial_capital is the sum of those profits.
C32_CashIsInitialPlusProfits ==
    Simulating =>
          /\ Len(realized_profits) = Len(trades_list)
          /\ \A k \in 1..Len(trades_list) :
                trades_list[k].profit = Round(realized_profits[k], 2)
          /\ (position = Zero \/ pc # "loop") =>
                capital = Add(request.initial_capital, total_realized)
          /\ pc # "loop" =>
                Sub(capital, request.initial_capital) = total_realized

\* the loop is at a bar with no position held, after a Trade that made a
\* profit; and the run goes on
C32_Witness ==
    /\ pc = "loop"
    /\ i < Len(df)
    /\ position = Zero
    /\ Len(trades_list) = 1
    /\ Gt(total_realized, Zero)
    /\ capital = Add(request.initial_capital, total_realized)

====
